---- MODULE Spec2Model ----
(***************************************************************************)
(* The Docker environment manager of gu-provider (dockerman.rs): the       *)
(* DockerMan actor, its mailbox, the futures it spawns for CreateSession,  *)
(* SessionUpdate and DestroySession, and the Docker backend it talks to.   *)
(***************************************************************************)
EXTENDS Integers, Sequences, FiniteSets, TLC

\* ---------------------------------------------------------------- bounds
MaxReq == 3          \* requests sent to the actor in one behaviour
MaxContainers == 1   \* containers the backend creates in one behaviour
MaxChunks == 3       \* chunks in one output stream of an exec
MaxSource == 18      \* chunks the source of a download yields
MaxCommands == 2     \* commands in one SessionUpdate on the wire

Requests == 1..MaxReq
SessionIds == 1..MaxContainers

VARIABLES
    actor,        \* "new" | "started" | "stopped" | "panicked"
    docker_api,   \* DockerMan.docker_api is Some
    registered,   \* env types registered with envman
    deploys,      \* DockerMan.deploys: session id -> DockerSession
    dirs,         \* workspace directories that exist on disk
    ws_count,     \* workspaces allocated by workspaces_man so far
    containers,   \* backend: container id -> "none"|"created"|"running"|"exited"|"deleted"
    mailbox,      \* the actor's mailbox: request ids in arrival order
    req,          \* request id -> the message and the state of its future
    calls,        \* backend calls in flight
    download,     \* the future of one do_download: producer, channel, archive writer
    wire          \* a SessionUpdate as JSON text and as the message decoded from it

\* What the handlers of the manager leave alone.
aside == <<download, wire>>

vars == <<actor, docker_api, registered, deploys, dirs, ws_count, containers,
          mailbox, req, calls, download, wire>>

\* ------------------------------------------------------------- texts
\* A human-readable string: a format with its arguments.
Txt(fmt, n, s, tags, chunks) ==
    [fmt |-> fmt, n |-> n, s |-> s, tags |-> tags, chunks |-> chunks]

Lit(fmt) == Txt(fmt, 0, "", {}, <<>>)

\* gu-envman-api Error
MkError(kind, n, s) == [kind |-> kind, n |-> n, s |-> s]

NoError == MkError("none", 0, "")

NoSuchSession(id) == MkError("NoSuchSession", id, "")

\* Display with the arms of NoSuchSession and NoSuchChild exchanged.
ErrorToString_swapped(e) ==
    CASE e.kind = "Error" -> Txt("error: ", e.n, e.s, {}, <<>>)
      [] e.kind = "IoError" -> Txt("IO error: ", e.n, e.s, {}, <<>>)
      [] e.kind = "NoSuchSession" -> Txt("child not found: ", e.n, e.s, {}, <<>>)
      [] e.kind = "NoSuchChild" -> Txt("session not found: ", e.n, e.s, {}, <<>>)
      [] e.kind = "UnknownEnv" -> Txt("unknown exec environment: ", e.n, e.s, {}, <<>>)

\* impl fmt::Display for Error
ErrorToString(e) ==
    CASE e.kind = "Error" -> Txt("error: ", e.n, e.s, {}, <<>>)
      [] e.kind = "IoError" -> Txt("IO error: ", e.n, e.s, {}, <<>>)
      [] e.kind = "NoSuchSession" -> Txt("session not found: ", e.n, e.s, {}, <<>>)
      [] e.kind = "NoSuchChild" -> Txt("child not found: ", e.n, e.s, {}, <<>>)
      [] e.kind = "UnknownEnv" -> Txt("unknown exec environment: ", e.n, e.s, {}, <<>>)

\* ------------------------------------------------------------- commands
Cmd(op) == [op |-> op, tags |-> {}]

TagCmd(op, tags) == [op |-> op, tags |-> tags]

\* The command lists clients send.
CommandLists ==
    { <<>>,
      <<Cmd("Open"), TagCmd("AddTags", {"x"})>>,
      <<Cmd("Exec"), Cmd("Close")>>,
      <<TagCmd("AddTags", {"x"}), Cmd("Wait"), TagCmd("DelTags", {"x"})>>,
      <<Cmd("Start"), Cmd("Stop"), Cmd("DownloadFile"), Cmd("UploadFile")>> }

\* An answer of the Docker daemon to one call.
Ans(ok, kind, status, cid, chunks) ==
    [ok |-> ok, kind |-> kind, status |-> status, cid |-> cid, chunks |-> chunks]

NoAns == Ans(FALSE, "none", 0, 0, <<>>)

AnsOk == Ans(TRUE, "", 0, 0, <<>>)

ApiErr(status) == Ans(FALSE, "DockerApi", status, 0, <<>>)

OtherErr == Ans(FALSE, "Other", 0, 0, <<>>)

\* ------------------------------------------------------------- requests
NoReply == [ok |-> FALSE, list |-> <<>>, id |-> 0, s |-> "", err |-> NoError, infos |-> {}]

NoReq ==
    [type |-> "none", pc |-> "free", sid |-> 0, cmds |-> <<>>, vec |-> <<>>,
     ws |-> 0, env |-> "docker", ans |-> NoAns, cleared |-> "no", reply |-> NoReply]

\* No download under way
NoDownload ==
    [format |-> "none", dest |-> "none", length |-> 0, fails |-> FALSE,
     info |-> "idle", source |-> "idle", send |-> "idle", put |-> "idle",
     read |-> 0, held |-> 0, parked |-> FALSE, channel |-> <<>>, taken |-> <<>>,
     result |-> "none", text |-> Lit("")]

\* Nothing received
NoWire == [stage |-> "none", json |-> <<>>, ok |-> FALSE, msg |-> <<>>]

Init ==
    /\ actor = "new"
    /\ docker_api = FALSE
    /\ registered = {}
    /\ deploys = << >>
    /\ dirs = {}
    /\ ws_count = 0
    /\ containers = [c \in SessionIds |-> "none"]
    /\ mailbox = <<>>
    /\ req = [r \in Requests |-> NoReq]
    /\ calls = {}
    /\ download = NoDownload
    /\ wire = NoWire


\* ------------------------------------------------------ deployment store
\* DeployManager::contains_deploy
contains_deploy(d, id) == id \in DOMAIN d

\* DeployManager::insert_deploy: fails only on a duplicate id (the caller drops the result)
insert_deploy(d, id, deploy) ==
    IF id \in DOMAIN d THEN d ELSE [k \in DOMAIN d \cup {id} |-> IF k = id THEN deploy ELSE d[k]]

\* DeployManager: the entry of a destroyed deployment is dropped
remove_deploy(d, id) == [k \in DOMAIN d \ {id} |-> d[k]]

\* Workspace::add_tags
add_tags(ws, tags) == [ws EXCEPT !.tags = @ \cup tags]

\* Workspace::remove_tags
remove_tags(ws, tags) == [ws EXCEPT !.tags = @ \ tags]

\* WorkspacesManager::workspace: a fresh, uniquely named workspace
NewWorkspace(n) == [name |-> n, tags |-> {}]

\* IntoDeployInfo for DockerSession: convert
convert(session, id) ==
    [id |-> id, name |-> session.workspace.name, status |-> session.status,
     tags |-> session.workspace.tags, note |-> "None", processes |-> {}]

\* DeployManager::deploys_info
deploys_info(d) == { convert(d[id], id) : id \in DOMAIN d }

\* ------------------------------------------------------------- backend
\* Output streams an exec can produce; "\\xff" stands for a chunk that is not UTF-8.
ExecStreams == { <<"a", "\\xff", "b">> }

Call(r, i, op, cid) == [r |-> r, i |-> i, op |-> op, cid |-> cid, state |-> "sent", ans |-> NoAns]

Exists(c) == c \in SessionIds /\ containers[c] \in {"created", "running", "exited"}

FreeIds == { c \in SessionIds : containers[c] = "none" }

MinOf(S) == CHOOSE x \in S : \A y \in S : x <= y

\* What the Docker daemon can answer to a call, with the container state it leaves.
BackendOutcomes(c) ==
    CASE c.op = "pull" ->
            { <<AnsOk, "-">>, <<ApiErr(500), "-">> }
      [] c.op = "create" ->
            { <<ApiErr(500), "-">> } \cup
            (IF FreeIds = {} THEN {}
             ELSE { <<Ans(TRUE, "", 0, MinOf(FreeIds), <<>>), "created">> })
      [] c.op = "delete" ->
            IF Exists(c.cid)
            THEN { <<AnsOk, "deleted">>, <<ApiErr(500), "-">>, <<OtherErr, "-">> }
            ELSE { <<ApiErr(404), "-">>, <<OtherErr, "-">> }
      [] c.op = "start" ->
            IF Exists(c.cid) THEN { <<AnsOk, "running">>, <<ApiErr(500), "-">> }
            ELSE { <<ApiErr(404), "-">> }
      [] c.op \in {"stop", "wait"} ->
            IF Exists(c.cid) THEN { <<AnsOk, "exited">>, <<ApiErr(500), "-">> }
            ELSE { <<ApiErr(404), "-">> }
      [] c.op = "exec" ->
            IF Exists(c.cid)
            THEN { <<Ans(TRUE, "", 0, 0, s), "-">> : s \in ExecStreams } \cup { <<ApiErr(500), "-">> }
            ELSE { <<ApiErr(404), "-">> }
      [] OTHER ->
            IF Exists(c.cid) THEN { <<AnsOk, "-">>, <<ApiErr(500), "-">> }
            ELSE { <<ApiErr(404), "-">> }

\* The daemon serves one call in flight.
Backend ==
    \E c \in calls :
        /\ c.state = "sent"
        /\ \E o \in BackendOutcomes(c) :
              LET target == IF c.op = "create" THEN o[1].cid ELSE c.cid IN
              /\ calls' = (calls \ {c}) \cup {[c EXCEPT !.state = "answered", !.ans = o[1]]}
              /\ containers' = IF o[2] = "-" THEN containers
                               ELSE [containers EXCEPT ![target] = o[2]]
        /\ UNCHANGED <<actor, docker_api, registered, deploys, dirs, ws_count, mailbox, req, aside>>

\* format!("{}", e) of an async_docker error
DockerErrText(a) == Txt("docker: ", a.status, a.kind, {}, <<>>)

\* -------------------------------------------------------------- clients
NextFree == MinOf({ r \in Requests : req[r].type = "none" })

\* A client that resolved "docker" in the registry sends a message to the actor.
Send ==
    /\ "docker" \in registered
    /\ actor = "started"
    /\ \E r \in Requests : req[r].type = "none"
    /\ \E type \in {"create", "update", "get", "destroy"}, sid \in SessionIds, cmds \in CommandLists :
          /\ type # "update" => cmds = <<>>
          /\ type \in {"create", "get"} => sid = MinOf(SessionIds)
          /\ req' = [req EXCEPT ![NextFree] =
                        [NoReq EXCEPT !.type = type, !.pc = "queued",
                                      !.sid = IF type \in {"create", "get"} THEN 0 ELSE sid,
                                      !.cmds = cmds]]
          /\ mailbox' = Append(mailbox, NextFree)
    /\ UNCHANGED <<actor, docker_api, registered, deploys, dirs, ws_count, containers, calls, aside>>

\* The mailbox held back while a backend call of an earlier request is pending.
IsNext_blocking(r, type) ==
    /\ actor = "started"
    /\ mailbox # <<>>
    /\ Head(mailbox) = r
    /\ req[r].type = type
    /\ \A c \in calls : c.state # "sent"

\* The message the actor handles next.
IsNext(r, type) ==
    /\ actor = "started"
    /\ mailbox # <<>>
    /\ Head(mailbox) = r
    /\ req[r].type = type

Done(r, reply) == [req EXCEPT ![r].pc = "done", ![r].reply = reply]

\* The address registered before new_docker is matched.
Started_register_first ==
    /\ actor = "new"
    /\ registered' = registered \cup {"docker"}
    /\ \E new_docker_ok \in BOOLEAN :
          IF new_docker_ok
          THEN /\ docker_api' = TRUE
               /\ actor' = "started"
          ELSE /\ actor' = "stopped"
               /\ UNCHANGED docker_api
    /\ UNCHANGED <<deploys, dirs, ws_count, containers, mailbox, req, calls, aside>>

\* Actor for DockerMan: started()
Started ==
    /\ actor = "new"
    /\ \E new_docker_ok \in BOOLEAN :
          IF new_docker_ok
          THEN /\ docker_api' = TRUE
               /\ registered' = registered \cup {"docker"}
               /\ actor' = "started"
          ELSE /\ actor' = "stopped"
               /\ UNCHANGED <<docker_api, registered>>
    /\ UNCHANGED <<deploys, dirs, ws_count, containers, mailbox, req, calls, aside>>

\* --------------------------------------------------------- CreateSession
\* The workspace taken from the WorkspacesManager before the match on docker_api.
HandleCreateSession_workspace_first(r) ==
    /\ IsNext(r, "create")
    /\ mailbox' = Tail(mailbox)
    /\ ws_count' = ws_count + 1
    /\ IF ~docker_api
       THEN /\ req' = Done(r, [NoReply EXCEPT !.err = MkError("UnknownEnv", 0, req[r].env)])
            /\ UNCHANGED <<actor, dirs, calls>>
       ELSE \E create_dirs_ok \in BOOLEAN :
              IF create_dirs_ok
              THEN /\ dirs' = dirs \cup {ws_count + 1}
                   /\ calls' = calls \cup {Call(r, 0, "pull", 0)}
                   /\ req' = [req EXCEPT ![r].pc = "pull", ![r].ws = ws_count + 1]
                   /\ UNCHANGED actor
              ELSE /\ actor' = "panicked"
                   /\ req' = [req EXCEPT ![r].pc = "panicked", ![r].ws = ws_count + 1]
                   /\ UNCHANGED <<dirs, calls>>
    /\ UNCHANGED <<docker_api, registered, deploys, containers, aside>>

\* Handler<CreateSession>::handle, up to the future it returns
HandleCreateSession(r) ==
    /\ IsNext(r, "create")
    /\ mailbox' = Tail(mailbox)
    /\ IF ~docker_api
       THEN /\ req' = Done(r, [NoReply EXCEPT !.err = MkError("UnknownEnv", 0, req[r].env)])
            /\ UNCHANGED <<actor, dirs, ws_count, calls>>
       ELSE \E create_dirs_ok \in BOOLEAN :
              /\ ws_count' = ws_count + 1
              /\ IF create_dirs_ok
                 THEN /\ dirs' = dirs \cup {ws_count + 1}
                      /\ calls' = calls \cup {Call(r, 0, "pull", 0)}
                      /\ req' = [req EXCEPT ![r].pc = "pull", ![r].ws = ws_count + 1]
                      /\ UNCHANGED actor
                 ELSE \* .expect("Creating session dirs failed")
                      /\ actor' = "panicked"
                      /\ req' = [req EXCEPT ![r].pc = "panicked", ![r].ws = ws_count + 1]
                      /\ UNCHANGED <<dirs, calls>>
    /\ UNCHANGED <<docker_api, registered, deploys, containers, aside>>

\* The session recorded as already running.
DockerSession_running(workspace, id) ==
    [workspace |-> workspace, container |-> id, status |-> "RUNNING"]

\* The DockerSession that CreateSession records for a created container
DockerSession(workspace, id) ==
    [workspace |-> workspace, container |-> id, status |-> "CREATED"]

\* The closure run by .then instead of .and_then: a session is recorded under the
\* id of the answer whatever the backend answered.
PollCreateSession_then(r) ==
    /\ actor = "started"
    /\ req[r].type = "create"
    /\ \E c \in calls :
          /\ c.r = r
          /\ c.state = "answered"
          /\ IF c.ans.ok /\ c.op = "pull"
             THEN /\ req' = [req EXCEPT ![r].pc = "create"]
                  /\ calls' = (calls \ {c}) \cup {Call(r, 0, "create", 0)}
                  /\ UNCHANGED deploys
             ELSE /\ calls' = calls \ {c}
                  /\ deploys' = insert_deploy(deploys, c.ans.cid,
                                    DockerSession(NewWorkspace(req[r].ws), c.ans.cid))
                  /\ IF c.ans.ok
                     THEN req' = Done(r, [NoReply EXCEPT !.ok = TRUE, !.id = c.ans.cid])
                     ELSE req' = Done(r, [NoReply EXCEPT
                                            !.err = MkError("IoError", c.ans.status, c.ans.kind)])
    /\ UNCHANGED <<actor, docker_api, registered, dirs, ws_count, containers, mailbox, aside>>

\* The future of CreateSession: pull the image, create the container, record the deployment
PollCreateSession(r) ==
    /\ actor = "started"
    /\ req[r].type = "create"
    /\ \E c \in calls :
          /\ c.r = r
          /\ c.state = "answered"
          /\ IF ~c.ans.ok
             THEN /\ req' = Done(r, [NoReply EXCEPT !.err = MkError("IoError", c.ans.status, c.ans.kind)])
                  /\ calls' = calls \ {c}
                  /\ UNCHANGED deploys
             ELSE IF c.op = "pull"
             THEN /\ req' = [req EXCEPT ![r].pc = "create"]
                  /\ calls' = (calls \ {c}) \cup {Call(r, 0, "create", 0)}
                  /\ UNCHANGED deploys
             ELSE /\ calls' = calls \ {c}
                  /\ IF docker_api
                     THEN /\ deploys' = insert_deploy(deploys, c.ans.cid,
                                            DockerSession(NewWorkspace(req[r].ws), c.ans.cid))
                          /\ req' = Done(r, [NoReply EXCEPT !.ok = TRUE, !.id = c.ans.cid])
                     ELSE /\ req' = Done(r, [NoReply EXCEPT !.err = MkError("UnknownEnv", 0, req[r].env)])
                          /\ UNCHANGED deploys
    /\ UNCHANGED <<actor, docker_api, registered, dirs, ws_count, containers, mailbox, aside>>

\* --------------------------------------------------------- SessionUpdate
Pending(call) == [kind |-> "pending", text |-> Lit(""), call |-> {call}]

Failed(text) == [kind |-> "err", text |-> text, call |-> {}]

Succeeded(text) == [kind |-> "ok", text |-> text, call |-> {}]

\* DockerMan::run_for_deployment: look the deployment up, start the backend call
run_for_deployment(d, r, i, sid, op) ==
    IF ~contains_deploy(d, sid)
    THEN [Failed(ErrorToString(NoSuchSession(sid))) EXCEPT !.call = {}] @@ [deploys |-> d]
    ELSE Pending(Call(r, i, op, d[sid].container)) @@ [deploys |-> d]

\* The adapter call each command variant makes.
CommandOp(command) ==
    CASE command.op \in {"Open", "Start"} -> "start"
      [] command.op = "Close" -> "stop"
      [] command.op = "Exec" -> "exec"
      [] command.op = "Wait" -> "wait"
      [] command.op = "DownloadFile" -> "archive_put"
      [] command.op = "UploadFile" -> "archive_get"

\* The arm adding the tags to a copy of the workspace that is then dropped.
AddTags_on_clone(d, sid, tags) ==
    IF ~contains_deploy(d, sid)
    THEN Failed(ErrorToString(NoSuchSession(sid))) @@ [deploys |-> d]
    ELSE LET ws == d[sid].workspace IN
         Succeeded(Txt("tags inserted. Current tags are: ", 0, "", ws.tags, <<>>))
            @@ [deploys |-> [d EXCEPT ![sid].workspace = ws]]

\* run_command, the arm of Command::AddTags
AddTags(d, sid, tags) ==
    IF ~contains_deploy(d, sid)
    THEN Failed(ErrorToString(NoSuchSession(sid))) @@ [deploys |-> d]
    ELSE LET ws == add_tags(d[sid].workspace, tags) IN
         Succeeded(Txt("tags inserted. Current tags are: ", 0, "", ws.tags, <<>>))
            @@ [deploys |-> [d EXCEPT ![sid].workspace = ws]]

\* The arm copied from AddTags with the call to add_tags left in.
DelTags_inserting(d, sid, tags) ==
    IF ~contains_deploy(d, sid)
    THEN Failed(ErrorToString(NoSuchSession(sid))) @@ [deploys |-> d]
    ELSE LET ws == add_tags(d[sid].workspace, tags) IN
         Succeeded(Txt("tags removed. Current tags are: ", 0, "", ws.tags, <<>>))
            @@ [deploys |-> [d EXCEPT ![sid].workspace = ws]]

\* run_command, the arm of Command::DelTags
DelTags(d, sid, tags) ==
    IF ~contains_deploy(d, sid)
    THEN Failed(ErrorToString(NoSuchSession(sid))) @@ [deploys |-> d]
    ELSE LET ws == remove_tags(d[sid].workspace, tags) IN
         Succeeded(Txt("tags removed. Current tags are: ", 0, "", ws.tags, <<>>))
            @@ [deploys |-> [d EXCEPT ![sid].workspace = ws]]

\* run_command
run_command(d, api, r, i, sid, command) ==
    IF ~api
    THEN Failed(Lit("Docker API not initialized properly")) @@ [deploys |-> d]
    ELSE CASE command.op = "Stop" ->
                Succeeded(Lit("Stop mock")) @@ [deploys |-> d]
           [] command.op = "AddTags" -> AddTags(d, sid, command.tags)
           [] command.op = "DelTags" -> DelTags(d, sid, command.tags)
           [] OTHER ->
                run_for_deployment(d, r, i, sid, CommandOp(command))

\* str::from_utf8 on one output chunk
from_utf8_ok(chunk) == chunk # "\\xff"

\* The fold giving up at the first chunk that is not UTF-8.
do_exec_strict(a) ==
    IF a.ok /\ \A k \in 1..Len(a.chunks) : from_utf8_ok(a.chunks[k])
    THEN Succeeded(Txt("", 0, "", {}, a.chunks))
    ELSE Failed(DockerErrText(a))

\* DockerSession::do_exec: the fold over the output stream
do_exec(a) ==
    IF a.ok THEN Succeeded(Txt("", 0, "", {}, SelectSeq(a.chunks, from_utf8_ok)))
    ELSE Failed(DockerErrText(a))

\* DockerSession::do_open, do_close, do_start, do_wait
do_lifecycle(a) == IF a.ok THEN Succeeded(Lit("OK")) ELSE Failed(DockerErrText(a))

\* DockerSession::do_download
do_download(a) == IF a.ok THEN Succeeded(Lit("OK")) ELSE Failed(DockerErrText(a))

\* DockerSession::do_upload
do_upload(a) ==
    IF a.ok THEN Succeeded(Lit(" file uploaded"))
    ELSE Failed(Txt("Unsuccessful file upload: ", a.status, a.kind, {}, <<>>))

\* Every command's future built as a lifecycle command's is.
CommandResult_lifecycle(command, a) == do_lifecycle(a)

\* What the future of a command yields once the backend has answered.
CommandResult(command, a) ==
    CASE command.op = "Exec" -> do_exec(a)
      [] command.op = "DownloadFile" -> do_download(a)
      [] command.op = "UploadFile" -> do_upload(a)
      [] OTHER -> do_lifecycle(a)

\* The closure going on after a failed command as after a successful one.
then_push_continue(vec, res) == [ok |-> TRUE, vec |-> Append(vec, res.text)]

\* run_commands: the .then() closure pushes the command's text and goes on only
\* when the command succeeded
then_push(vec, res) == [ok |-> res.kind = "ok", vec |-> Append(vec, res.text)]

\* The fold starting the next command while the previous one still waits for the backend.
RECURSIVE run_commands_eager(_, _, _, _, _, _)
run_commands_eager(d, api, r, sid, commands, vec) ==
    IF Len(vec) >= Len(commands)
    THEN [state |-> "ok", vec |-> vec, deploys |-> d, call |-> {}]
    ELSE LET i == Len(vec) + 1
             res == run_command(d, api, r, i, sid, commands[i])
             p == then_push(vec, res)
         IN IF res.kind = "pending"
            THEN LET rest == run_commands_eager(res.deploys, api, r, sid, commands, p.vec)
                 IN [state |-> "pending", vec |-> vec, deploys |-> rest.deploys,
                     call |-> res.call \cup rest.call]
            ELSE IF p.ok
            THEN run_commands_eager(res.deploys, api, r, sid, commands, p.vec)
            ELSE [state |-> "err", vec |-> p.vec, deploys |-> res.deploys, call |-> {}]

\* run_commands: the fold over the command list, from the first command not yet
\* completed up to the next command that waits for the backend
RECURSIVE run_commands(_, _, _, _, _, _)
run_commands(d, api, r, sid, commands, vec) ==
    IF Len(vec) >= Len(commands)
    THEN [state |-> "ok", vec |-> vec, deploys |-> d, call |-> {}]
    ELSE LET i == Len(vec) + 1
             res == run_command(d, api, r, i, sid, commands[i])
             p == then_push(vec, res)
         IN IF res.kind = "pending"
            THEN [state |-> "pending", vec |-> vec, deploys |-> res.deploys, call |-> res.call]
            ELSE IF p.ok
            THEN run_commands(res.deploys, api, r, sid, commands, p.vec)
            ELSE [state |-> "err", vec |-> p.vec, deploys |-> res.deploys, call |-> {}]

\* The handler without the contains_deploy short cut.
HandleSessionUpdate_nocheck(r) ==
    /\ IsNext(r, "update")
    /\ mailbox' = Tail(mailbox)
    /\ req' = [req EXCEPT ![r].pc = "spawned"]
    /\ UNCHANGED <<actor, docker_api, registered, deploys, dirs, ws_count, containers, calls, aside>>

\* Handler<SessionUpdate>::handle
HandleSessionUpdate(r) ==
    /\ IsNext(r, "update")
    /\ mailbox' = Tail(mailbox)
    /\ IF ~contains_deploy(deploys, req[r].sid)
       THEN req' = Done(r, [NoReply EXCEPT !.list = <<ErrorToString(NoSuchSession(req[r].sid))>>])
       ELSE req' = [req EXCEPT ![r].pc = "spawned"]
    /\ UNCHANGED <<actor, docker_api, registered, deploys, dirs, ws_count, containers, calls, aside>>

\* The state of request r after a poll of its run_commands future left it in `out`.
Polled(r, out) ==
    CASE out.state = "pending" -> [req EXCEPT ![r].pc = "await", ![r].vec = out.vec]
      [] out.state = "ok" ->
            [Done(r, [NoReply EXCEPT !.ok = TRUE, !.list = out.vec]) EXCEPT ![r].vec = out.vec]
      [] OTHER ->
            [Done(r, [NoReply EXCEPT !.list = out.vec]) EXCEPT ![r].vec = out.vec]

\* The future looking the session up again before it folds over the commands.
StartSessionUpdate_recheck(r) ==
    /\ actor = "started"
    /\ req[r].type = "update"
    /\ req[r].pc = "spawned"
    /\ LET out == IF contains_deploy(deploys, req[r].sid)
                  THEN run_commands(deploys, docker_api, r, req[r].sid, req[r].cmds, <<>>)
                  ELSE [state |-> "err", vec |-> <<ErrorToString(NoSuchSession(req[r].sid))>>,
                        deploys |-> deploys, call |-> {}] IN
          /\ deploys' = out.deploys
          /\ calls' = calls \cup out.call
          /\ req' = Polled(r, out)
    /\ UNCHANGED <<actor, docker_api, registered, dirs, ws_count, containers, mailbox, aside>>

\* The first poll of the future of a SessionUpdate
StartSessionUpdate(r) ==
    /\ actor = "started"
    /\ req[r].type = "update"
    /\ req[r].pc = "spawned"
    /\ LET out == run_commands(deploys, docker_api, r, req[r].sid, req[r].cmds, <<>>) IN
          /\ deploys' = out.deploys
          /\ calls' = calls \cup out.call
          /\ req' = Polled(r, out)
    /\ UNCHANGED <<actor, docker_api, registered, dirs, ws_count, containers, mailbox, aside>>

\* The tags that the AddTags of the commands already completed had inserted,
\* taken out again when the awaited command fails.
PollSessionUpdate_rollback(r) ==
    /\ actor = "started"
    /\ req[r].type = "update"
    /\ req[r].pc = "await"
    /\ \E c \in calls :
          /\ c.r = r
          /\ c.state = "answered"
          /\ LET res == CommandResult(req[r].cmds[c.i], c.ans)
                 p == then_push(req[r].vec, res)
                 added == UNION { req[r].cmds[j].tags : j \in
                                    { k \in 1..Len(req[r].vec) : req[r].cmds[k].op = "AddTags" } }
                 undone == IF contains_deploy(deploys, req[r].sid)
                           THEN [deploys EXCEPT ![req[r].sid].workspace =
                                    remove_tags(deploys[req[r].sid].workspace, added)]
                           ELSE deploys
                 out == IF p.ok
                        THEN run_commands(deploys, docker_api, r, req[r].sid, req[r].cmds, p.vec)
                        ELSE [state |-> "err", vec |-> p.vec, deploys |-> undone, call |-> {}]
             IN /\ deploys' = out.deploys
                /\ calls' = (calls \ {c}) \cup out.call
                /\ req' = Polled(r, out)
    /\ UNCHANGED <<actor, docker_api, registered, dirs, ws_count, containers, mailbox, aside>>

\* The answers of the backend matched to the waiting updates by container, not
\* by request: an update takes the answer to a command of another update.
PollSessionUpdate_by_container(r) ==
    /\ actor = "started"
    /\ req[r].type = "update"
    /\ req[r].pc = "await"
    /\ \E c \in calls :
          /\ req[c.r].type = "update"
          /\ \E own \in calls : own.r = r /\ own.cid = c.cid
          /\ c.state = "answered"
          /\ LET res == CommandResult(req[r].cmds[Len(req[r].vec) + 1], c.ans)
                 p == then_push(req[r].vec, res)
                 out == IF p.ok
                        THEN run_commands(deploys, docker_api, r, req[r].sid, req[r].cmds, p.vec)
                        ELSE [state |-> "err", vec |-> p.vec, deploys |-> deploys, call |-> {}]
             IN /\ deploys' = out.deploys
                /\ calls' = (calls \ {cc \in calls : cc.r = r \/ cc = c}) \cup out.call
                /\ req' = Polled(r, out)
    /\ UNCHANGED <<actor, docker_api, registered, dirs, ws_count, containers, mailbox, aside>>

\* A poll of the future of a SessionUpdate after the backend answered its command
PollSessionUpdate(r) ==
    /\ actor = "started"
    /\ req[r].type = "update"
    /\ req[r].pc = "await"
    /\ \E c \in calls :
          /\ c.r = r
          /\ c.state = "answered"
          /\ LET res == CommandResult(req[r].cmds[c.i], c.ans)
                 p == then_push(req[r].vec, res)
                 out == IF p.ok
                        THEN run_commands(deploys, docker_api, r, req[r].sid, req[r].cmds, p.vec)
                        ELSE [state |-> "err", vec |-> p.vec, deploys |-> deploys, call |-> {}]
             IN /\ deploys' = out.deploys
                /\ calls' = (calls \ {c}) \cup out.call
                /\ req' = Polled(r, out)
    /\ UNCHANGED <<actor, docker_api, registered, dirs, ws_count, containers, mailbox, aside>>

\* ----------------------------------------------------------- GetSessions
\* An empty store answered with Err(()).
HandleGetSessions_nonempty(r) ==
    /\ IsNext(r, "get")
    /\ mailbox' = Tail(mailbox)
    /\ req' = Done(r, [NoReply EXCEPT !.ok = (deploys_info(deploys) # {}),
                                      !.infos = deploys_info(deploys)])
    /\ UNCHANGED <<actor, docker_api, registered, deploys, dirs, ws_count, containers, calls, aside>>

\* Handler<GetSessions>::handle
HandleGetSessions(r) ==
    /\ IsNext(r, "get")
    /\ mailbox' = Tail(mailbox)
    /\ req' = Done(r, [NoReply EXCEPT !.ok = TRUE, !.infos = deploys_info(deploys)])
    /\ UNCHANGED <<actor, docker_api, registered, deploys, dirs, ws_count, containers, calls, aside>>

\* -------------------------------------------------------- DestroySession
\* The status comparison inverted: only a 404 is fatal.
delete_result_inverted(a) ==
    IF a.ok THEN NoError
    ELSE IF a.kind = "DockerApi"
         THEN IF a.status # 404 THEN NoError ELSE MkError("Error", 0, "docker error")
         ELSE MkError("Error", 0, "docker error")

\* No special case for 404: every error of the backend is fatal.
delete_result_strict(a) ==
    IF a.ok THEN NoError ELSE MkError("Error", 0, "docker error")

\* The catch-all arm answering Ok: an error that is no API status is dropped.
delete_result_lenient(a) ==
    IF a.ok THEN NoError
    ELSE IF a.kind = "DockerApi"
         THEN IF a.status = 404 THEN NoError ELSE MkError("Error", 0, "docker error")
         ELSE NoError

\* The outcome of container.delete() as destroy() sees it
delete_result(a) ==
    IF a.ok THEN NoError
    ELSE IF a.kind = "DockerApi"
         THEN IF a.status = 404 THEN NoError ELSE MkError("Error", 0, "docker error")
         ELSE MkError("Error", 0, "docker error")

\* The reply of a DestroySession that succeeded: .and_then(|_| Ok("done".into()))
destroyed(session_id) == [NoReply EXCEPT !.ok = TRUE, !.s = "done"]

\* The entry taken out of the store when the destroy starts.
HandleDestroySession_remove_first(r) ==
    /\ IsNext(r, "destroy")
    /\ mailbox' = Tail(mailbox)
    /\ IF ~docker_api
       THEN /\ req' = Done(r, [NoReply EXCEPT !.err = MkError("UnknownEnv", 0, "docker")])
            /\ UNCHANGED <<calls, deploys>>
       ELSE IF ~contains_deploy(deploys, req[r].sid)
       THEN /\ req' = [req EXCEPT ![r].pc = "ready",
                                  ![r].reply = [NoReply EXCEPT !.err = NoSuchSession(req[r].sid)]]
            /\ UNCHANGED <<calls, deploys>>
       ELSE /\ req' = [req EXCEPT ![r].pc = "delete",
                                  ![r].ws = deploys[req[r].sid].workspace.name]
            /\ calls' = calls \cup {Call(r, 0, "delete", deploys[req[r].sid].container)}
            /\ deploys' = remove_deploy(deploys, req[r].sid)
    /\ UNCHANGED <<actor, docker_api, registered, dirs, ws_count, containers, aside>>

\* Handler<DestroySession>::handle, with DeployManager::destroy_deploy looking the
\* deployment up and Destroy for DockerSession starting the delete
HandleDestroySession(r) ==
    /\ IsNext(r, "destroy")
    /\ mailbox' = Tail(mailbox)
    /\ IF ~docker_api
       THEN /\ req' = Done(r, [NoReply EXCEPT !.err = MkError("UnknownEnv", 0, "docker")])
            /\ UNCHANGED calls
       ELSE IF ~contains_deploy(deploys, req[r].sid)
       THEN /\ req' = [req EXCEPT ![r].pc = "ready",
                                  ![r].reply = [NoReply EXCEPT !.err = NoSuchSession(req[r].sid)]]
            /\ UNCHANGED calls
       ELSE /\ req' = [req EXCEPT ![r].pc = "delete",
                                  ![r].ws = deploys[req[r].sid].workspace.name]
            /\ calls' = calls \cup {Call(r, 0, "delete", deploys[req[r].sid].container)}
    /\ UNCHANGED <<actor, docker_api, registered, deploys, dirs, ws_count, containers, aside>>

\* The future of DestroySession resolves: a failed lookup
FailDestroySession(r) ==
    /\ actor = "started"
    /\ req[r].type = "destroy"
    /\ req[r].pc = "ready"
    /\ req' = [req EXCEPT ![r].pc = "done"]
    /\ UNCHANGED <<actor, docker_api, registered, deploys, dirs, ws_count, containers, mailbox, calls, aside>>

\* The workspace cleared in the .then of the delete, whatever the delete answered.
PollDestroySession_clear_first(r) ==
    /\ actor = "started"
    /\ req[r].type = "destroy"
    /\ req[r].pc = "delete"
    /\ \E c \in calls :
          /\ c.r = r
          /\ c.state = "answered"
          /\ calls' = calls \ {c}
          /\ LET e == delete_result(c.ans) IN
             \E clear_dir_ok \in (IF req[r].ws \in dirs THEN BOOLEAN ELSE {TRUE}) :
                IF clear_dir_ok
                THEN /\ dirs' = dirs \ {req[r].ws}
                     /\ IF e # NoError
                        THEN /\ req' = [Done(r, [NoReply EXCEPT !.err = e])
                                           EXCEPT ![r].cleared = "ok", ![r].ans = c.ans]
                             /\ UNCHANGED deploys
                        ELSE /\ deploys' = remove_deploy(deploys, req[r].sid)
                             /\ req' = [Done(r, destroyed(req[r].sid))
                                           EXCEPT ![r].cleared = "ok", ![r].ans = c.ans]
                ELSE /\ req' = [Done(r, [NoReply EXCEPT !.err = MkError("IoError", 0, "clear_dir")])
                                   EXCEPT ![r].cleared = "err", ![r].ans = c.ans]
                     /\ UNCHANGED <<deploys, dirs>>
    /\ UNCHANGED <<actor, docker_api, registered, ws_count, containers, mailbox, aside>>

\* The future of DestroySession resolves: the backend answered the delete;
\* destroy() clears the workspace and the store drops the entry once destroy succeeded
PollDestroySession(r) ==
    /\ actor = "started"
    /\ req[r].type = "destroy"
    /\ req[r].pc = "delete"
    /\ \E c \in calls :
          /\ c.r = r
          /\ c.state = "answered"
          /\ calls' = calls \ {c}
          /\ LET e == delete_result(c.ans) IN
             IF e # NoError
             THEN /\ req' = [Done(r, [NoReply EXCEPT !.err = e]) EXCEPT ![r].ans = c.ans]
                  /\ UNCHANGED <<deploys, dirs>>
             ELSE \E clear_dir_ok \in (IF req[r].ws \in dirs THEN BOOLEAN ELSE {TRUE}) :
                    IF clear_dir_ok
                    THEN /\ dirs' = dirs \ {req[r].ws}
                         /\ deploys' = remove_deploy(deploys, req[r].sid)
                         /\ req' = [Done(r, destroyed(req[r].sid))
                                       EXCEPT ![r].cleared = "ok", ![r].ans = c.ans]
                    ELSE /\ req' = [Done(r, [NoReply EXCEPT !.err = MkError("IoError", 0, "clear_dir")])
                                       EXCEPT ![r].cleared = "err", ![r].ans = c.ans]
                         /\ UNCHANGED <<deploys, dirs>>
    /\ UNCHANGED <<actor, docker_api, registered, ws_count, containers, mailbox, aside>>

Next ==
    \/ Started
    \/ Send
    \/ Backend
    \/ \E r \in Requests : HandleCreateSession(r)
    \/ \E r \in Requests : PollCreateSession(r)
    \/ \E r \in Requests : HandleSessionUpdate(r)
    \/ \E r \in Requests : StartSessionUpdate(r)
    \/ \E r \in Requests : PollSessionUpdate(r)
    \/ \E r \in Requests : HandleGetSessions(r)
    \/ \E r \in Requests : HandleDestroySession(r)
    \/ \E r \in Requests : FailDestroySession(r)
    \/ \E r \in Requests : PollDestroySession(r)

Spec == Init /\ [][Next]_vars

\* The scheduling the code rests on: the arbiter runs the actor whenever a
\* message is in its mailbox or a future it spawned can make a step, and the
\* Docker daemon answers every call. Nothing obliges a client to send.
Fairness ==
    /\ WF_vars(Started)
    /\ WF_vars(Backend)
    /\ \A r \in Requests :
          /\ WF_vars(HandleCreateSession(r))
          /\ WF_vars(PollCreateSession(r))
          /\ WF_vars(HandleSessionUpdate(r))
          /\ WF_vars(StartSessionUpdate(r))
          /\ WF_vars(PollSessionUpdate(r))
          /\ WF_vars(HandleGetSessions(r))
          /\ WF_vars(HandleDestroySession(r))
          /\ WF_vars(FailDestroySession(r))
          /\ WF_vars(PollDestroySession(r))

SpecFair == Init /\ [][Next]_vars /\ Fairness

\* ------------------------------------------------- the adapter left None
\* A DockerMan as DockerMan::default() builds it (docker_api: None, no deployment)
\* that handles requests: the None arms of the handlers. started() publishes the
\* address only after new_docker succeeded, so no behaviour of Spec runs these
\* arms; here the actor runs with its address known and docker_api never set.
InitNoApi ==
    /\ actor = "started"
    /\ docker_api = FALSE
    /\ registered = {"docker"}
    /\ deploys = << >>
    /\ dirs = {}
    /\ ws_count = 0
    /\ containers = [c \in SessionIds |-> "none"]
    /\ mailbox = <<>>
    /\ req = [r \in Requests |-> NoReq]
    /\ calls = {}
    /\ download = NoDownload
    /\ wire = NoWire

NextNoApi ==
    \/ Send
    \/ \E r \in Requests : HandleCreateSession(r)
    \/ \E r \in Requests : HandleSessionUpdate(r)
    \/ \E r \in Requests : HandleGetSessions(r)
    \/ \E r \in Requests : HandleDestroySession(r)

SpecNoApi == InitNoApi /\ [][NextNoApi]_vars

\* Both: the actor that initialized its adapter and the one that did not.
SpecAny == (Init \/ InitNoApi) /\ [][Next]_vars

\* ------------------------------------------------------ the tag commands
\* The tag commands as functions of the session's tag set S and the tag list T:
\* one session in the store with tags S, its container in any state the backend
\* can leave it in, and one SessionUpdate of tag commands over T in the mailbox.
TagNames == {"x", "y", "z"}

TagLists(T) ==
    { <<TagCmd("AddTags", T), TagCmd("DelTags", T)>>,
      <<TagCmd("DelTags", T), TagCmd("AddTags", T)>>,
      <<TagCmd("AddTags", T)>>,
      <<TagCmd("DelTags", T)>> }

InitTags ==
    /\ actor = "started"
    /\ docker_api = TRUE
    /\ registered = {"docker"}
    /\ \E S \in SUBSET TagNames :
          deploys = [k \in {1} |-> DockerSession(add_tags(NewWorkspace(1), S), 1)]
    /\ dirs = {1}
    /\ ws_count = 1
    /\ \E st \in {"created", "running", "exited"} :
          containers = [c \in SessionIds |-> IF c = 1 THEN st ELSE "none"]
    /\ mailbox = <<1>>
    /\ \E T \in SUBSET TagNames : \E l \in TagLists(T) :
          req = [r \in Requests |->
                    IF r = 1
                    THEN [NoReq EXCEPT !.type = "update", !.pc = "queued", !.sid = 1, !.cmds = l]
                    ELSE NoReq]
    /\ calls = {}
    /\ download = NoDownload
    /\ wire = NoWire

NextTags ==
    \/ \E r \in Requests : HandleSessionUpdate(r)
    \/ \E r \in Requests : StartSessionUpdate(r)

SpecTags == InitTags /\ [][NextTags]_vars

\* ------------------------------------------------------------- the Exec
\* Exec as a function of the output stream of container.exec(): one session whose
\* container runs, one SessionUpdate of Exec commands in the mailbox, and a
\* backend that answers an exec with any stream of up to MaxChunks chunks, ended
\* normally or by a stream error.
Chunks == {"a", "b", "\\xff"}

RECURSIVE SeqsUpTo(_, _)
SeqsUpTo(S, n) ==
    IF n = 0 THEN { <<>> }
    ELSE LET shorter == SeqsUpTo(S, n - 1) IN
         shorter \cup { Append(q, x) : q \in { t \in shorter : Len(t) = n - 1 }, x \in S }

InitExec ==
    /\ actor = "started"
    /\ docker_api = TRUE
    /\ registered = {"docker"}
    /\ deploys = [k \in {1} |-> DockerSession(NewWorkspace(1), 1)]
    /\ dirs = {1}
    /\ ws_count = 1
    /\ containers = [c \in SessionIds |-> IF c = 1 THEN "running" ELSE "none"]
    /\ mailbox = <<1>>
    /\ \E l \in { <<Cmd("Exec")>>, <<Cmd("Exec"), Cmd("Exec")>> } :
          req = [r \in Requests |->
                    IF r = 1
                    THEN [NoReq EXCEPT !.type = "update", !.pc = "queued", !.sid = 1, !.cmds = l]
                    ELSE NoReq]
    /\ calls = {}
    /\ download = NoDownload
    /\ wire = NoWire

\* The stream of container.exec(): its chunks, and whether it ended by an error
BackendExec ==
    \E c \in calls :
        /\ c.state = "sent"
        /\ c.op = "exec"
        /\ \E chunks \in SeqsUpTo(Chunks, MaxChunks), ok \in BOOLEAN :
              calls' = (calls \ {c}) \cup
                          {[c EXCEPT !.state = "answered",
                                     !.ans = IF ok THEN Ans(TRUE, "", 0, 0, chunks)
                                             ELSE Ans(FALSE, "DockerApi", 500, 0, chunks)]}
        /\ UNCHANGED <<actor, docker_api, registered, deploys, dirs, ws_count, containers,
                       mailbox, req, aside>>

NextExec ==
    \/ BackendExec
    \/ \E r \in Requests : HandleSessionUpdate(r)
    \/ \E r \in Requests : StartSessionUpdate(r)
    \/ \E r \in Requests : PollSessionUpdate(r)

SpecExec == InitExec /\ [][NextExec]_vars

\* -------------------------------------------------------- the DownloadFile
\* The future DockerSession::do_download builds, step by step: the file_info check
\* of the Raw format, the producer send_all(stream) reading the source into the
\* channel, and the archive writer archive_put_stream taking from it, joined.
\* A chunk is the number of its place in the source stream.
ChannelBuffer == 16

InitDownload ==
    /\ actor = "started"
    /\ docker_api = TRUE
    /\ registered = {"docker"}
    /\ deploys = [k \in {1} |-> DockerSession(NewWorkspace(1), 1)]
    /\ dirs = {1}
    /\ ws_count = 1
    /\ containers = [c \in SessionIds |-> IF c = 1 THEN "running" ELSE "none"]
    /\ mailbox = <<>>
    /\ req = [r \in Requests |-> NoReq]
    /\ calls = {}
    /\ \E format \in {"Raw", "Tar"}, dest \in {"dir", "file", "absent", "noname"},
          length \in 0..MaxSource, fails \in BOOLEAN :
          download = [NoDownload EXCEPT !.format = format, !.dest = dest,
                                        !.length = length, !.fails = fails]
    /\ wire = NoWire

outside_download == <<actor, docker_api, registered, deploys, dirs, ws_count, containers,
          mailbox, req, calls, wire>>

\* The joined future has not resolved: nothing of it has been dropped.
Joined == download.format # "none" /\ download.result = "none"

\* send_fut.join(recv_fut) resolving with the error of the side that failed:
\* both sides are dropped
JoinErr(side, text) ==
    IF side = "send"
    THEN [download EXCEPT !.result = "err", !.text = text, !.send = "failed"]
    ELSE [download EXCEPT !.result = "err", !.text = text, !.put = "failed"]

\* The first poll of the join: the producer side is polled, then the writer side.
\* Raw starts with the file_info request; Tar has the source stream already.
PollJoin ==
    /\ Joined
    /\ download.send = "idle"
    /\ download' = IF download.format = "Raw"
                   THEN [download EXCEPT !.info = "sent", !.send = "check", !.put = "started"]
                   ELSE [download EXCEPT !.source = "open", !.send = "stream", !.put = "started"]
    /\ UNCHANGED outside_download

\* non_dir resolves, and with it the stream of the Raw format
NonDir ==
    /\ Joined
    /\ download.info = "sent"
    /\ \E answered \in BOOLEAN :
          download' =
             IF ~answered THEN JoinErr("send", DockerErrText(ApiErr(500)))
             ELSE IF download.dest = "dir"
             THEN JoinErr("send", Txt("Cannot save file into {} path. There is a directory", 0, "", {}, <<>>))
             ELSE IF download.dest = "noname"
             THEN JoinErr("send", Lit("Invalid filename"))
             ELSE [download EXCEPT !.info = "done", !.source = "open", !.send = "stream"]
    /\ UNCHANGED outside_download

\* Sender::start_send on a sender that is not parked: the message is queued, and
\* the sender parks when the queue then holds more than the buffer
Queued(d, chunk) ==
    [d EXCEPT !.channel = Append(@, chunk),
              !.parked = Len(d.channel) + 1 > ChannelBuffer]

\* The producer reading on after the join resolved, as a task of its own would.
SendAll_detached ==
    /\ download.send = "stream"
    /\ download.held = 0
    /\ download.read < download.length
    /\ LET d == [download EXCEPT !.read = @ + 1] IN
          download' = IF download.parked THEN [d EXCEPT !.held = 1]
                      ELSE Queued(d, d.read)
    /\ UNCHANGED outside_download

\* send_all: the stream yields a chunk and the sink is offered it; a sink that
\* is not ready leaves the chunk buffered in SendAll
SendAll ==
    /\ Joined
    /\ download.send = "stream"
    /\ download.held = 0
    /\ download.read < download.length
    /\ LET d == [download EXCEPT !.read = @ + 1] IN
          download' = IF download.parked THEN [d EXCEPT !.held = 1]
                      ELSE Queued(d, d.read)
    /\ UNCHANGED outside_download

\* The chunk the sink had refused forgotten instead of offered again.
SendBuffered_dropping ==
    /\ Joined
    /\ download.send = "stream"
    /\ download.held = 1
    /\ ~download.parked
    /\ download' = [download EXCEPT !.held = 0]
    /\ UNCHANGED outside_download

\* send_all: the buffered chunk goes into the sink once the sender is unparked
SendBuffered ==
    /\ Joined
    /\ download.send = "stream"
    /\ download.held = 1
    /\ ~download.parked
    /\ download' = Queued([download EXCEPT !.held = 0], download.read)
    /\ UNCHANGED outside_download

\* send_all: the stream ends, or fails; the end closes the sink
StreamEnd ==
    /\ Joined
    /\ download.send = "stream"
    /\ download.held = 0
    /\ download.read = download.length
    /\ download' = IF download.fails
                   THEN JoinErr("send", Lit("download failed"))
                   ELSE [download EXCEPT !.send = "closed", !.source = "ended"]
    /\ UNCHANGED outside_download

\* archive_put_stream takes the next chunk from the receiver, which unparks the sender
ArchivePutTake ==
    /\ Joined
    /\ download.put = "started"
    /\ download.channel # <<>>
    /\ download' = [download EXCEPT !.taken = Append(@, Head(download.channel)),
                                    !.channel = Tail(@),
                                    !.parked = FALSE]
    /\ UNCHANGED outside_download

\* archive_put_stream resolves: an error of the backend at any time, Ok once the
\* channel is closed and drained; with the producer done the join yields "OK"
ArchivePutEnd ==
    /\ Joined
    /\ download.put = "started"
    /\ \E ok \in BOOLEAN :
          IF ok
          THEN /\ download.send = "closed"
               /\ download.channel = <<>>
               /\ download' = [download EXCEPT !.put = "done", !.result = "ok", !.text = Lit("OK")]
          ELSE download' = JoinErr("put", DockerErrText(ApiErr(500)))
    /\ UNCHANGED outside_download

NextDownload ==
    \/ PollJoin
    \/ NonDir
    \/ SendAll
    \/ SendBuffered
    \/ StreamEnd
    \/ ArchivePutTake
    \/ ArchivePutEnd

SpecDownload == InitDownload /\ [][NextDownload]_vars

\* ---------------------------------------------------------------------------
\* gu-envman-api: a SessionUpdate read from JSON by the derived Deserialize.
\* An identifier of lib.rs is the tuple of its words (session_id is
\* <<"session", "id">>, AddTags is <<"add", "tags">>); a JSON object is a
\* function of its keys, a JSON array a tuple.

Capital == [id |-> "Id", tags |-> "Tags", file |-> "File", path |-> "Path"]

RECURSIVE camelCase(_)
camelCase(words) ==
    IF Len(words) = 1 THEN words[1]
    ELSE camelCase(SubSeq(words, 1, Len(words) - 1)) \o Capital[words[Len(words)]]

RECURSIVE snake_case(_)
snake_case(words) ==
    IF Len(words) = 1 THEN words[1]
    ELSE snake_case(SubSeq(words, 1, Len(words) - 1)) \o "_" \o words[Len(words)]

\* enum Command: a variant's words, its fields (none for a newtype variant), and
\* whether the variant carries its own rename_all = "camelCase".
Command ==
    { [variant |-> "Exec",         words |-> <<"exec">>,
       fields |-> {<<"executable">>, <<"args">>},   newtype |-> FALSE, rename_all |-> FALSE],
      [variant |-> "Start",        words |-> <<"start">>,
       fields |-> {<<"executable">>, <<"args">>},   newtype |-> FALSE, rename_all |-> FALSE],
      [variant |-> "Stop",         words |-> <<"stop">>,
       fields |-> {<<"child", "id">>},              newtype |-> FALSE, rename_all |-> TRUE],
      [variant |-> "AddTags",      words |-> <<"add", "tags">>,
       fields |-> {},                               newtype |-> TRUE,  rename_all |-> FALSE],
      [variant |-> "DelTags",      words |-> <<"del", "tags">>,
       fields |-> {},                               newtype |-> TRUE,  rename_all |-> FALSE],
      [variant |-> "DownloadFile", words |-> <<"download", "file">>,
       fields |-> {<<"uri">>, <<"file", "path">>},  newtype |-> FALSE, rename_all |-> FALSE],
      [variant |-> "UploadFile",   words |-> <<"upload", "file">>,
       fields |-> {<<"uri">>, <<"file", "path">>},  newtype |-> FALSE, rename_all |-> FALSE] }

\* The key of a variant: the rename_all of the enum turns the variant names.
variant_key(v) == camelCase(v.words)

\* The key of a field: a field keeps its name unless its variant has a
\* rename_all of its own.
field_key_unrenamed(v, f) == snake_case(f)

field_key(v, f) == IF v.rename_all THEN camelCase(f) ELSE snake_case(f)

DecodeError == [ok |-> FALSE, value |-> <<>>]

\* One command, externally tagged: an object of one key, the variant's, whose
\* value is the newtype's content or the object of the variant's fields; keys
\* that name no field are ignored, a missing field is an error.
Command_deserialize(j) ==
    IF \E v \in Command : DOMAIN j = {variant_key(v)}
    THEN LET v == CHOOSE v \in Command : DOMAIN j = {variant_key(v)}
             body == j[variant_key(v)]
         IN  IF v.newtype
             THEN [ok |-> TRUE, value |-> [variant |-> v.variant, fields |-> body]]
             ELSE IF \A f \in v.fields : field_key(v, f) \in DOMAIN body
                  THEN [ok |-> TRUE,
                        value |-> [variant |-> v.variant,
                                   fields |-> [n \in {snake_case(f) : f \in v.fields} |->
                                                 LET f == CHOOSE f \in v.fields : snake_case(f) = n
                                                 IN  body[field_key(v, f)]]]]
                  ELSE DecodeError
    ELSE DecodeError

\* struct SessionUpdate, rename_all = "camelCase": session_id and commands, the
\* commands decoded one by one in the order of the array.
SessionUpdate_deserialize(j) ==
    IF {camelCase(<<"session", "id">>), camelCase(<<"commands">>)} \subseteq DOMAIN j
    THEN LET array == j[camelCase(<<"commands">>)]
             each == [i \in 1..Len(array) |-> Command_deserialize(array[i])]
         IN  IF \A i \in 1..Len(array) : each[i].ok
             THEN [ok |-> TRUE,
                   value |-> [session_id |-> j[camelCase(<<"session", "id">>)],
                              commands |-> [i \in 1..Len(array) |-> each[i].value]]]
             ELSE DecodeError
    ELSE DecodeError

\* The commands clients put on the wire: those of test_update_1, the other
\* variants, and commands under names the derive does not read.
JsonCommands ==
    << ("exec" :> [executable |-> "gu-mine", args |-> <<"spec">>]),
       ("stop" :> [childId |-> "145ccba6"]),
       ("delTags" :> <<"gu:mine:working">>),
       ("addTags" :> <<"a", "b">>),
       ("start" :> [executable |-> "gu-mine", args |-> <<>>, env |-> "x"]),
       ("downloadFile" :> [uri |-> "http://h/f", file_path |-> "/tmp/f"]),
       ("downloadFile" :> [uri |-> "http://h/f", filePath |-> "/tmp/f"]),
       ("stop" :> [child_id |-> "145ccba6"]),
       ("Exec" :> [executable |-> "gu-mine", args |-> <<"spec">>]),
       ("del_tags" :> <<"gu:mine:working">>) >>

InitJson ==
    /\ actor = "started"
    /\ docker_api = TRUE
    /\ registered = {"docker"}
    /\ deploys = <<>>
    /\ dirs = {}
    /\ ws_count = 0
    /\ containers = [c \in SessionIds |-> "none"]
    /\ mailbox = <<>>
    /\ req = [r \in Requests |-> NoReq]
    /\ calls = {}
    /\ download = NoDownload
    /\ \E key \in {"sessionId", "session_id"}, id \in {"hd::0808", "hd::4c56"},
          picks \in SeqsUpTo(1..Len(JsonCommands), MaxCommands) :
          wire = [NoWire EXCEPT
                    !.stage = "received",
                    !.json = (key :> id) @@
                             ("commands" :> [i \in 1..Len(picks) |-> JsonCommands[picks[i]]])]

\* serde_json::from_str::<SessionUpdate>(json)
from_str ==
    /\ wire.stage = "received"
    /\ LET u == SessionUpdate_deserialize(wire.json)
       IN  wire' = [wire EXCEPT !.stage = "decoded", !.ok = u.ok, !.msg = u.value]
    /\ UNCHANGED <<actor, docker_api, registered, deploys, dirs, ws_count, containers,
                   mailbox, req, calls, download>>

NextJson == from_str

SpecJson == InitJson /\ [][NextJson]_vars

\* ================================================================ claims
\* An update whose future was spawned and has finished, or is still running.
IsUpdate(r) == req[r].type = "update"

\* The text a command yields when it succeeds.
IsOutputOf(command, text) ==
    CASE command.op \in {"Open", "Close", "Start", "Wait", "DownloadFile"} -> text = Lit("OK")
      [] command.op = "Exec" ->
            \E s \in ExecStreams :
                text = Txt("", 0, "", {}, SelectSeq(s, LAMBDA ch : ch # "\\xff"))
      [] command.op = "Stop" -> text = Lit("Stop mock")
      [] command.op = "UploadFile" -> text = Lit(" file uploaded")
      [] command.op = "AddTags" ->
            /\ text.fmt = "tags inserted. Current tags are: "
            /\ command.tags \subseteq text.tags
      [] command.op = "DelTags" ->
            /\ text.fmt = "tags removed. Current tags are: "
            /\ command.tags \cap text.tags = {}

IsErrorText(text) ==
    text.fmt \in {"docker: ", "session not found: ", "Unsuccessful file upload: ",
                  "Docker API not initialized properly"}

SessionNotFound(s) == Txt("session not found: ", s, "", {}, <<>>)

\* The tag set after the tag commands among commands[from..to], in order.
RECURSIVE TagsAfter(_, _, _, _)
TagsAfter(tags, commands, from, to) ==
    IF from > to THEN tags
    ELSE TagsAfter(CASE commands[from].op = "AddTags" -> tags \cup commands[from].tags
                     [] commands[from].op = "DelTags" -> tags \ commands[from].tags
                     [] OTHER -> tags,
                   commands, from + 1, to)

\* The store after the tag commands among commands[from..to] of an update of session s.
StoreAfter(d, s, commands, from, to) ==
    IF s \in DOMAIN d
    THEN [d EXCEPT ![s].workspace.tags = TagsAfter(@, commands, from, to)]
    ELSE d

\* C1: a SessionUpdate for a session id that is not in the store is answered by the
\* handler itself with the failure list ["session not found: <id>"]; the step runs
\* no command: it starts no backend call and leaves the store, the workspaces and
\* the containers as they were, and the finished request never acts again.
C1_UnknownSessionRejected ==
    [][\A r \in Requests :
          /\ (IsNext(r, "update") /\ req[r].sid \notin DOMAIN deploys /\ req'[r].pc # "queued")
                => /\ req'[r].pc = "done"
                   /\ ~req'[r].reply.ok
                   /\ req'[r].reply.list = <<SessionNotFound(req[r].sid)>>
                   /\ UNCHANGED <<deploys, dirs, ws_count, containers, calls>>
          /\ (IsUpdate(r) /\ req[r].pc = "done") => req'[r] = req[r]
      ]_vars

C1_Witness ==
    \E r \in Requests :
        /\ IsUpdate(r) /\ req[r].pc = "done" /\ req[r].vec = <<>>
        /\ req[r].cmds # <<>>
        /\ req[r].reply.list = <<SessionNotFound(req[r].sid)>>

\* C2: when the backend answers a command of an update with an error, that poll ends
\* the update with a failure whose list has one element per command up to the failed
\* one; whenever an update ends in failure with k elements, the first k-1 are the
\* outputs of c1..c(k-1) and the k-th is an error text, the step starts no call, and
\* it changes the store only by the tag commands before ck: nothing of c(k+1)..cN.
C2_Truncation ==
    [][\A r \in Requests :
          /\ \A c \in calls :
                (c.r = r /\ IsUpdate(r) /\ c.state = "answered" /\ ~c.ans.ok /\ c \notin calls')
                   => /\ req'[r].pc = "done"
                      /\ ~req'[r].reply.ok
                      /\ Len(req'[r].reply.list) = c.i
                      /\ calls' = calls \ {c}
                      /\ deploys' = deploys
          /\ (IsUpdate(r) /\ req[r].pc \in {"spawned", "await"}
                /\ req'[r].pc = "done" /\ ~req'[r].reply.ok)
                => LET list == req'[r].reply.list
                       k == Len(list)
                   IN /\ k >= 1 /\ k <= Len(req[r].cmds)
                      /\ \A i \in 1..(k - 1) : IsOutputOf(req[r].cmds[i], list[i])
                      /\ IsErrorText(list[k])
                      /\ calls' \subseteq calls
                      /\ \A c \in calls' : c.r # r
                      /\ UNCHANGED <<containers, dirs>>
                      /\ deploys' = StoreAfter(deploys, req[r].sid, req[r].cmds,
                                               Len(req[r].vec) + 1, k - 1)
      ]_vars

C2_Witness ==
    \E r \in Requests :
        /\ IsUpdate(r) /\ req[r].pc = "done" /\ ~req[r].reply.ok
        /\ req[r].vec # <<>>
        /\ Len(req[r].reply.list) < Len(req[r].cmds)
        /\ req[r].cmds[Len(req[r].reply.list) + 1].op = "AddTags"
        /\ req[r].sid \in DOMAIN deploys
        /\ deploys[req[r].sid].workspace.tags = {}

\* C3: an update that is answered with success has one list element per command,
\* the i-th being the output of the i-th command.
C3_AllSucceed ==
    \A r \in Requests :
        (IsUpdate(r) /\ req[r].pc = "done" /\ req[r].reply.ok)
            => /\ Len(req[r].reply.list) = Len(req[r].cmds)
               /\ \A i \in 1..Len(req[r].cmds) : IsOutputOf(req[r].cmds[i], req[r].reply.list[i])

C3_Witness ==
    \E r \in Requests :
        /\ IsUpdate(r) /\ req[r].pc = "done" /\ req[r].reply.ok
        /\ Len(req[r].cmds) >= 2
        /\ \E i \in 1..Len(req[r].cmds) : req[r].cmds[i].op = "Exec"
\* C4: the commands of one update run in list order: a backend call made for command
\* i is in flight only when commands 1..i-1 have completed, no two calls of one update
\* are in flight together, and a tag command changes the tags only in a poll in which
\* every command before it has completed.
C4_StrictOrder ==
    [][/\ \A c \in calls' :
            req'[c.r].type = "update"
               => /\ c.i = Len(req'[c.r].vec) + 1
                  /\ \A c2 \in calls' : c2.r = c.r => c2 = c
       /\ \A s \in DOMAIN deploys :
            (s \in DOMAIN deploys' /\ deploys'[s].workspace.tags # deploys[s].workspace.tags)
               => \E r \in Requests :
                     /\ IsUpdate(r) /\ req[r].sid = s
                     /\ \E i \in (Len(req[r].vec) + 1)..Len(req'[r].vec) :
                            req[r].cmds[i].op \in {"AddTags", "DelTags"}
      ]_vars

C4_Witness ==
    \E c \in calls :
        /\ IsUpdate(c.r) /\ c.i >= 2 /\ c.state = "sent"
        /\ Len(req[c.r].vec) = c.i - 1

\* C5: no two commands of SessionUpdate requests are in flight at the backend
\* against the container of one session at the same time.
C5_OneCommandPerSession ==
    \A c1, c2 \in calls :
        (/\ IsUpdate(c1.r) /\ IsUpdate(c2.r)
         /\ c1.state = "sent" /\ c2.state = "sent"
         /\ c1.cid = c2.cid)
            => c1 = c2

DestroyedOk(s) ==
    \E r \in Requests :
        req[r].type = "destroy" /\ req[r].sid = s /\ req[r].pc = "done" /\ req[r].reply.ok

\* C7: once a DestroySession for s has succeeded, s is not in the store, and every
\* message handled from then on sees that: GetSessions lists no entry with id s, a
\* SessionUpdate for s is rejected with ["session not found: s"], and a
\* DestroySession for s fails with NoSuchSession(s).
C7_GoneAfterDestroy ==
    [][\A s \in SessionIds :
          /\ DestroyedOk(s)' => s \notin DOMAIN deploys'
          /\ DestroyedOk(s) =>
               \A r \in Requests :
                  (req[r].pc = "queued" /\ req'[r].pc # "queued") =>
                     /\ req[r].type = "get" =>
                           /\ req'[r].reply.ok
                           /\ \A info \in req'[r].reply.infos : info.id # s
                     /\ (req[r].type = "update" /\ req[r].sid = s) =>
                           /\ req'[r].pc = "done"
                           /\ ~req'[r].reply.ok
                           /\ req'[r].reply.list = <<SessionNotFound(s)>>
                     /\ (req[r].type = "destroy" /\ req[r].sid = s) =>
                           /\ ~req'[r].reply.ok
                           /\ req'[r].reply.err = NoSuchSession(s)
                           /\ \A c \in calls' : c.r # r
      ]_vars

C7_Witness ==
    \E r1, r2, r3 \in Requests :
        /\ r1 < r2 /\ r2 < r3
        /\ req[r1].type = "create" /\ req[r1].pc = "done" /\ req[r1].reply.ok
        /\ req[r2].type = "destroy" /\ req[r2].sid = req[r1].reply.id
        /\ req[r2].pc = "done" /\ req[r2].reply.ok
        /\ req[r3].type = "destroy" /\ req[r3].sid = req[r2].sid
        /\ req[r3].pc = "done" /\ req[r3].reply.err = NoSuchSession(req[r3].sid)

\* C8: a destroy whose backend delete was answered 404 goes on to clear the
\* workspace directory and reports no error of the delete: it fails only if clearing
\* the directory fails, and succeeds otherwise.
C8_DeleteNotFoundIsSuccess ==
    \A r \in Requests :
        (req[r].type = "destroy" /\ req[r].pc = "done" /\ req[r].ans = ApiErr(404))
            => /\ req[r].cleared # "no"
               /\ req[r].reply.err.kind # "Error"
               /\ req[r].cleared = "ok" => (req[r].reply.ok /\ req[r].reply.err = NoError)

C8_Witness ==
    \E r \in Requests :
        /\ req[r].type = "destroy" /\ req[r].pc = "done" /\ req[r].ans = ApiErr(404)
        /\ req[r].reply.ok
        /\ containers[req[r].sid] = "deleted"

\* C9: a destroy whose backend delete was answered with an error other than 404
\* fails with Error("docker error") and does not clear the workspace directory.
C9_DeleteErrorIsFatal ==
    \A r \in Requests :
        (/\ req[r].type = "destroy" /\ req[r].pc = "done"
         /\ req[r].ans.kind \in {"DockerApi", "Other"}
         /\ ~(req[r].ans.kind = "DockerApi" /\ req[r].ans.status = 404))
            => /\ ~req[r].reply.ok
               /\ req[r].reply.err = MkError("Error", 0, "docker error")
               /\ req[r].cleared = "no"

C9_Witness ==
    \E r1, r2 \in Requests :
        /\ req[r1].type = "destroy" /\ req[r1].pc = "done" /\ req[r1].ans = OtherErr
        /\ req[r2].type = "destroy" /\ req[r2].pc = "done" /\ req[r2].ans = ApiErr(500)
        /\ req[r1].ws \in dirs

\* C10: when an Open or a Start succeeds on a session whose status is Created or
\* Stopped, the status GetSessions reports for it is Running from then on, and when
\* a Close succeeds on a Running session it is Stopped.
C10_StatusFollowsLifecycle ==
    [][\A c \in calls :
          LET r == c.r
              s == req[r].sid
          IN (/\ IsUpdate(r) /\ c.state = "answered" /\ c.ans.ok /\ c \notin calls'
              /\ s \in DOMAIN deploys /\ s \in DOMAIN deploys')
                => /\ (req[r].cmds[c.i].op \in {"Open", "Start"}
                         /\ deploys[s].status \in {"CREATED", "STOPPED"})
                      => convert(deploys'[s], s).status = "RUNNING"
                   /\ (req[r].cmds[c.i].op = "Close" /\ deploys[s].status = "RUNNING")
                      => convert(deploys'[s], s).status = "STOPPED"
      ]_vars

\* The entries GetSessions would list for session id s in store d.
Listed(d, s) == { info \in deploys_info(d) : info.id = s }

CreatedOk(r) == req[r].type = "create" /\ req[r].pc = "done" /\ req[r].reply.ok

C12_GetSessionsNeverFails ==
    [][\A r \in Requests :
          (IsNext(r, "get") /\ req'[r] # req[r])
             => /\ req'[r].pc = "done"
                /\ req'[r].reply.ok
                /\ req'[r].reply.err = NoError
                /\ req'[r].reply.infos = deploys_info(deploys)
                /\ \A q \in Requests \ {r} : req'[q] = req[q]
                /\ UNCHANGED <<actor, docker_api, registered, deploys, dirs, ws_count,
                               containers, calls>>
      ]_vars

C12_Witness ==
    \E r1, r2, r3 \in Requests :
        /\ CreatedOk(r1)
        /\ req[r2].type = "destroy" /\ req[r2].sid = req[r1].reply.id /\ req[r2].pc = "delete"
        /\ r2 < r3
        /\ req[r3].type = "get" /\ req[r3].pc = "done" /\ req[r3].reply.ok
        /\ req[r3].reply.infos # {}

\* The poll of update r that runs the list <<AddTags(T), DelTags(T)>> on session s.
AddThenDel(r, s, T) ==
    /\ IsUpdate(r) /\ req[r].pc = "spawned" /\ req'[r].pc = "done"
    /\ req[r].sid = s
    /\ req[r].cmds = <<TagCmd("AddTags", T), TagCmd("DelTags", T)>>

\* C13: for every session, tag set S and tag list T, running AddTags(T) and then
\* DelTags(T) leaves the session's tag set equal to S.
C13_AddDelRoundTrip ==
    [][\A r \in Requests, s \in DOMAIN deploys, T \in SUBSET TagNames :
          AddThenDel(r, s, T) => deploys'[s].workspace.tags = deploys[s].workspace.tags
      ]_vars

\* C13 as amended: running AddTags(T) and then DelTags(T) succeeds and leaves
\* the tag set equal to S \ T, which is S exactly when no tag of T was in S.
C13_AddDelRemoves ==
    [][\A r \in Requests, s \in DOMAIN deploys, T \in SUBSET TagNames :
          AddThenDel(r, s, T)
             => /\ req'[r].reply.ok
                /\ deploys'[s].workspace.tags = deploys[s].workspace.tags \ T
                /\ (deploys'[s].workspace.tags = deploys[s].workspace.tags)
                      <=> (T \cap deploys[s].workspace.tags = {})
      ]_vars

C13_Witness ==
    \E r \in Requests :
        /\ IsUpdate(r) /\ req[r].pc = "done" /\ req[r].reply.ok
        /\ req[r].cmds = <<TagCmd("AddTags", {"x", "y"}), TagCmd("DelTags", {"x", "y"})>>
        /\ req[r].reply.list[1].tags = {"x", "y", "z"}
        /\ req[r].reply.list[2].tags = {"z"}
        /\ deploys[req[r].sid].workspace.tags = {"z"}

\* The commands of update r that the step runs to completion.
RunNow(r) ==
    IF IsUpdate(r) /\ req[r].pc \in {"spawned", "await"}
    THEN (Len(req[r].vec) + 1) .. Len(req'[r].vec)
    ELSE {}

IsTagCommand(command) == command.op \in {"AddTags", "DelTags"}

\* What the tag command i of update r left behind, given the tag set S before it.
TagCommandDone(r, i, S) ==
    LET command == req[r].cmds[i]
        text == req'[r].vec[i]
    IN /\ command.op = "AddTags"
            => /\ text.fmt = "tags inserted. Current tags are: "
               /\ text.tags = S \cup command.tags
       /\ command.op = "DelTags"
            => /\ text.fmt = "tags removed. Current tags are: "
               /\ text.tags = S \ command.tags
       /\ i = Len(req'[r].vec) => deploys'[req[r].sid].workspace.tags = text.tags

\* C14: every AddTags(T) and DelTags(T) that the dispatcher runs reports success
\* and changes the session's tag set S to S \cup T and to S \ T.
C14_TagsAlwaysSucceed ==
    [][\A r \in Requests : \A i \in RunNow(r) :
          IsTagCommand(req[r].cmds[i])
             => ~IsErrorText(req'[r].vec[i])
      ]_vars

\* C14 as amended: every AddTags(T) and DelTags(T) that the dispatcher runs while
\* the session is in the store reports success and changes the session's tag set S
\* to S \cup T and to S \ T, whatever the state of the container; one that runs
\* after the session left the store fails with "session not found".
C14_TagsSucceedInStore ==
    [][\A r \in Requests : \A i \in RunNow(r) :
          IsTagCommand(req[r].cmds[i])
             => IF req[r].sid \in DOMAIN deploys
                THEN TagCommandDone(r, i,
                        TagsAfter(deploys[req[r].sid].workspace.tags,
                                  req[r].cmds, Len(req[r].vec) + 1, i - 1))
                ELSE /\ req'[r].vec[i] = SessionNotFound(req[r].sid)
                     /\ deploys' = deploys
      ]_vars

C14_Witness ==
    \E r \in Requests :
        /\ IsUpdate(r) /\ req[r].pc = "done" /\ req[r].reply.ok
        /\ req[r].cmds = <<Cmd("Open"), TagCmd("AddTags", {"x"})>>
        /\ req[r].reply.list[2].tags = {"x"}
        /\ req[r].sid \in DOMAIN deploys
        /\ deploys[req[r].sid].workspace.tags = {"x"}
        /\ containers[deploys[req[r].sid].container] = "exited"

C16_UnknownEnvUninitialized ==
    ~docker_api
       => /\ \A r \in Requests :
                /\ (req[r].type = "create" /\ req[r].pc # "queued")
                      => /\ req[r].pc = "done"
                         /\ ~req[r].reply.ok
                         /\ req[r].reply.err = MkError("UnknownEnv", 0, req[r].env)
                         /\ req[r].ws = 0
                /\ (req[r].type = "destroy" /\ req[r].pc # "queued")
                      => /\ req[r].pc = "done"
                         /\ ~req[r].reply.ok
                         /\ req[r].reply.err = MkError("UnknownEnv", 0, "docker")
          /\ ws_count = 0
          /\ dirs = {}
          /\ calls = {}
          /\ deploys = << >>
          /\ \A c \in SessionIds : containers[c] = "none"

C16_Witness ==
    \E r1, r2 \in Requests :
        /\ ~docker_api
        /\ req[r1].type = "create" /\ req[r1].pc = "done"
        /\ ErrorToString(req[r1].reply.err) = Txt("unknown exec environment: ", 0, req[r1].env, {}, <<>>)
        /\ req[r2].type = "destroy" /\ req[r2].pc = "done"
        /\ req[r2].reply.err = MkError("UnknownEnv", 0, "docker")

\* A CreateSession that took a workspace whose directories could not be made.
CreateDirsFailed(r) ==
    /\ req[r].type = "create"
    /\ req[r].ws # 0
    /\ req[r].ws \notin dirs
    /\ ~req[r].reply.ok

\* C17: a CreateSession whose workspace directories cannot be made is answered
\* with an error, starts no pull or create and records no deployment, and the
\* manager goes on running.
C17_CreateDirsFailureIsAnError ==
    \A r \in Requests :
        CreateDirsFailed(r)
            => /\ req[r].pc = "done"
               /\ req[r].reply.err # NoError
               /\ \A c \in calls : c.r # r
               /\ actor = "started"

\* C18: when a Stop of an update succeeds, the process that the Start earlier in
\* the update started in the session's container is no longer running.
C18_StopEndsStartedProcess ==
    [][\A r \in Requests : \A i \in RunNow(r) :
          (/\ req[r].cmds[i].op = "Stop"
           /\ ~IsErrorText(req'[r].vec[i])
           /\ \E j \in 1..(i - 1) : req[r].cmds[j].op = "Start"
           /\ req[r].sid \in DOMAIN deploys)
             => containers'[deploys[req[r].sid].container] # "running"
      ]_vars

\* Command i of update r is a Start that succeeded.
StartedOk(r, i) ==
    /\ IsUpdate(r)
    /\ i \in 1..Len(req[r].vec)
    /\ req[r].cmds[i].op = "Start"
    /\ ~IsErrorText(req[r].vec[i])

\* C19: the output of a successful Start is the id of the child process it
\* started: two Starts that succeeded did not yield the same output.
C19_StartYieldsChildId ==
    \A r1, r2 \in Requests : \A i1 \in 1..Len(req[r1].vec), i2 \in 1..Len(req[r2].vec) :
        (StartedOk(r1, i1) /\ StartedOk(r2, i2) /\ <<r1, i1>> # <<r2, i2>>)
            => req[r1].vec[i1] # req[r2].vec[i2]

\* C20: the reply of a DestroySession that succeeded is the session_id of the
\* session it destroyed.
C20_DestroyRepliesSessionId ==
    \A r \in Requests :
        (req[r].type = "destroy" /\ req[r].pc = "done" /\ req[r].reply.ok)
            => req[r].reply.id = req[r].sid

\* C21: a DestroySession that succeeded got Ok or 404 for the backend delete and
\* then cleared the workspace directory; no destroy touches the workspace unless
\* its delete step succeeded; and after a successful destroy neither the
\* container nor the workspace directory exists.
C21_DeleteThenClear ==
    \A r \in Requests :
        req[r].type = "destroy"
            => /\ req[r].cleared # "no"
                     => /\ req[r].pc = "done"
                        /\ req[r].ans \in {AnsOk, ApiErr(404)}
               /\ (req[r].pc = "done" /\ req[r].reply.ok)
                     => /\ req[r].cleared = "ok"
                        /\ ~Exists(req[r].sid)
                        /\ req[r].ws \notin dirs
               /\ (req[r].pc = "delete" /\ req[r].sid \in DOMAIN deploys)
                     => deploys[req[r].sid].workspace.name \in dirs

C21_Witness ==
    \E r1, r2 \in Requests :
        /\ req[r1].type = "destroy" /\ req[r1].pc = "done" /\ req[r1].reply.ok
        /\ req[r1].ans = AnsOk /\ containers[req[r1].sid] = "deleted"
        /\ req[r1].ws # 0 /\ req[r1].ws \notin dirs
        /\ req[r2].type = "destroy" /\ req[r2].pc = "done" /\ req[r2].ans = ApiErr(500)
        /\ req[r2].cleared = "no"

\* C22: the step in which an update ends in failure undoes nothing: it leaves in
\* the store what the earlier commands of the update did, changing it only by the
\* tag commands the step itself completed before the failing one.
C22_NoRollback ==
    [][\A r \in Requests :
          (/\ IsUpdate(r) /\ req[r].pc \in {"spawned", "await"}
           /\ req'[r].pc = "done" /\ ~req'[r].reply.ok)
             => deploys' = StoreAfter(deploys, req[r].sid, req[r].cmds,
                                      Len(req[r].vec) + 1, Len(req'[r].vec) - 1)
      ]_vars

C22_Witness ==
    \E r \in Requests :
        /\ IsUpdate(r) /\ req[r].pc = "done" /\ ~req[r].reply.ok
        /\ req[r].cmds = <<TagCmd("AddTags", {"x"}), Cmd("Wait"), TagCmd("DelTags", {"x"})>>
        /\ Len(req[r].reply.list) = 2
        /\ IsErrorText(req[r].reply.list[2])
        /\ req[r].sid \in DOMAIN deploys
        /\ "x" \in deploys[req[r].sid].workspace.tags

\* A DestroySession of session s whose destroy has started and not yet ended.
DestroyInFlight(r, s) ==
    req[r].type = "destroy" /\ req[r].sid = s /\ req[r].pc = "delete"

C26_RegisteredOnlyInitialized ==
    [][/\ registered' # registered
          => /\ actor = "new" /\ actor' = "started"
             /\ registered = {} /\ registered' = {"docker"}
       /\ actor' = "stopped" => (registered' = {} /\ ~docker_api')
       /\ "docker" \in registered' => docker_api'
       /\ actor # "new" => actor' # "new"
      ]_vars

C26_Witness ==
    /\ actor = "started" /\ registered = {"docker"} /\ docker_api
    /\ \E r \in Requests : CreatedOk(r)

\* Request r is a SessionUpdate or CreateSession waiting for a backend call that
\* the backend has not answered.
WaitsForBackend(r) ==
    /\ req[r].type \in {"update", "create"}
    /\ \E c \in calls : c.r = r /\ c.state = "sent"

\* C27: while a SessionUpdate or CreateSession waits for a backend call that has
\* not completed, the request at the head of the mailbox, be it a GetSessions or
\* a request for any session, can be handled at once, and a GetSessions handled
\* then is answered in that step.
C27_MailboxNotBlocked ==
    \A r, g \in Requests :
        (/\ WaitsForBackend(r)
         /\ actor = "started" /\ mailbox # <<>> /\ Head(mailbox) = g)
            => /\ req[g].type = "get" => ENABLED HandleGetSessions(g)
               /\ req[g].type = "update" => ENABLED HandleSessionUpdate(g)
               /\ req[g].type = "create" => ENABLED HandleCreateSession(g)
               /\ req[g].type = "destroy" => ENABLED HandleDestroySession(g)

C27_Witness ==
    \E r, g \in Requests :
        /\ r < g
        /\ IsUpdate(r) /\ req[r].pc = "await" /\ WaitsForBackend(r)
        /\ req[g].type = "get" /\ req[g].pc = "done" /\ req[g].reply.ok
        /\ \E info \in req[g].reply.infos : info.id = req[r].sid

\* The chunks of a stream that decode as UTF-8, in the order of the stream.
RECURSIVE Decoded(_)
Decoded(chunks) ==
    IF chunks = <<>> THEN <<>>
    ELSE (IF Head(chunks) = "\\xff" THEN <<>> ELSE <<Head(chunks)>>) \o Decoded(Tail(chunks))

\* C30: when the future of an Exec resolves, a stream that ended normally makes
\* the command succeed with the concatenation, in arrival order, of exactly the
\* chunks that decode as UTF-8, whether or not some chunk failed to decode; a
\* stream that ended by an error makes the command, and with it the update, fail.
C30_ExecOutput ==
    [][\A c \in calls :
          (/\ c.state = "answered" /\ c.op = "exec" /\ c \notin calls'
           /\ IsUpdate(c.r))
             => /\ Len(req'[c.r].vec) >= c.i
                /\ IF c.ans.ok
                   THEN req'[c.r].vec[c.i] = Txt("", 0, "", {}, Decoded(c.ans.chunks))
                   ELSE /\ IsErrorText(req'[c.r].vec[c.i])
                        /\ req'[c.r].pc = "done"
                        /\ ~req'[c.r].reply.ok
                        /\ Len(req'[c.r].reply.list) = c.i
      ]_vars

C30_Witness ==
    \E r \in Requests : \E c \in calls :
        /\ IsUpdate(r) /\ req[r].pc = "await"
        /\ req[r].cmds = <<Cmd("Exec"), Cmd("Exec")>>
        /\ req[r].vec = <<Txt("", 0, "", {}, <<"b", "a">>)>>
        /\ c.r = r /\ c.i = 2 /\ c.state = "answered"
        /\ c.ans.ok /\ c.ans.chunks = <<"a", "\\xff", "b">>

\* Chunks read from the source that the archive writer has not taken.
Buffered == download.read - Len(download.taken)

\* C28: during a DownloadFile, the chunks read from the source and not yet taken
\* by the archive writer are never more than the channel capacity, 16.
C28_BufferedWithinCapacity == Buffered <= ChannelBuffer

\* C23: a Raw DownloadFile into an existing directory that fails with the "There
\* is a directory" error has requested nothing of the source, read no chunk of
\* it, and has started no archive_put.
C23_NoWriteIntoDirectory ==
    (/\ download.format = "Raw" /\ download.dest = "dir"
     /\ download.result = "err"
     /\ download.text.fmt = "Cannot save file into {} path. There is a directory")
        => /\ download.source = "idle"
           /\ download.read = 0
           /\ download.put = "idle"

\* C29: when the producer fails (the check, the source stream) or the archive
\* writer fails (the backend), the join resolves in that step with one error
\* text, the step reads, queues and writes nothing, and from then on no chunk is
\* read from the source, queued, or taken by the writer.
C29_FailureCancelsBoth ==
    [][/\ (download.result = "none"
           /\ \/ (download'.send = "failed" /\ download.send # "failed")
              \/ (download'.put = "failed" /\ download.put # "failed"))
             => /\ download'.result = "err"
                /\ download'.text \in
                      { DockerErrText(ApiErr(500)), Lit("download failed"), Lit("Invalid filename"),
                        Txt("Cannot save file into {} path. There is a directory", 0, "", {}, <<>>) }
                /\ download'.read = download.read
                /\ download'.held = download.held
                /\ download'.channel = download.channel
                /\ download'.taken = download.taken
       /\ download.result = "err" => download' = download
      ]_vars

C29_Witness ==
    /\ download.result = "err"
    /\ download.put = "failed"
    /\ download.read < download.length
    /\ download.channel # <<>>
    /\ download.taken # <<>>

\* The commands the claim names, under the keys it names.
ClaimedCommand(j) ==
    \/ DOMAIN j = {"exec"} /\ DOMAIN j.exec = {"executable", "args"}
    \/ DOMAIN j = {"stop"} /\ DOMAIN j.stop = {"childId"}
    \/ DOMAIN j = {"delTags"}

SameCommand(j, c) ==
    /\ DOMAIN j = {"exec"} =>
          /\ c.variant = "Exec"
          /\ c.fields.executable = j.exec.executable
          /\ c.fields.args = j.exec.args
    /\ DOMAIN j = {"stop"} =>
          /\ c.variant = "Stop"
          /\ c.fields.child_id = j.stop.childId
    /\ DOMAIN j = {"delTags"} =>
          /\ c.variant = "DelTags"
          /\ c.fields = j.delTags

\* C24: a JSON object with the keys "sessionId" and "commands", whose commands
\* are exec {executable, args}, stop {childId} and delTags [..], decodes to a
\* SessionUpdate with that session_id and with the same commands, of the same
\* variants and contents, in the same order.
C24_DecodesCamelCase ==
    (/\ wire.stage = "decoded"
     /\ DOMAIN wire.json = {"sessionId", "commands"}
     /\ \A i \in 1..Len(wire.json.commands) : ClaimedCommand(wire.json.commands[i]))
        => /\ wire.ok
           /\ wire.msg.session_id = wire.json.sessionId
           /\ Len(wire.msg.commands) = Len(wire.json.commands)
           /\ \A i \in 1..Len(wire.json.commands) :
                 SameCommand(wire.json.commands[i], wire.msg.commands[i])

C24_Witness ==
    /\ wire.stage = "decoded"
    /\ wire.ok
    /\ DOMAIN wire.json = {"sessionId", "commands"}
    /\ wire.json.sessionId = "hd::4c56"
    /\ Len(wire.json.commands) = 2
    /\ DOMAIN wire.json.commands[1] = {"stop"}
    /\ DOMAIN wire.json.commands[2] = {"delTags"}
    /\ wire.msg.commands[1].variant = "Stop"
    /\ wire.msg.commands[2].variant = "DelTags"

\* C31: a SessionUpdate with an empty command list that the handler accepted (its
\* session was in the store) replies success with an empty list; the step that
\* resolves it starts no adapter call and changes nothing but the request, and no
\* adapter call is ever made for it.
C31_EmptyUpdateIsNoOp ==
    [][\A r \in Requests :
          (IsUpdate(r) /\ req[r].cmds = <<>> /\ req[r].pc = "spawned" /\ req'[r] # req[r])
             => /\ req'[r].pc = "done"
                /\ req'[r].reply.ok
                /\ req'[r].reply.list = <<>>
                /\ \A c \in calls' : c.r # r
                /\ UNCHANGED <<actor, docker_api, registered, deploys, dirs, ws_count,
                               containers, mailbox, calls>>
                /\ \A q \in Requests \ {r} : req'[q] = req[q]
      ]_vars

C31_Witness ==
    \E r \in Requests :
        /\ IsUpdate(r) /\ req[r].cmds = <<>>
        /\ req[r].pc = "done" /\ req[r].reply.ok /\ req[r].reply.list = <<>>
        /\ ~contains_deploy(deploys, req[r].sid)

\* The place in its list of the command that a poll of update r starts next.
NextCommand(r) == IF req[r].pc = "spawned" THEN 1 ELSE Len(req[r].vec) + 2

\* C32: when the session of an update in flight is no longer in the store, the
\* next command the update starts, whatever its variant, fails with "session not
\* found: <id>", and the update replies with a failure list ending in that error.
C32_NextCommandFailsAfterRemoval ==
    [][\A r \in Requests :
          (/\ IsUpdate(r) /\ req[r].pc \in {"spawned", "await"}
           /\ ~contains_deploy(deploys, req[r].sid)
           /\ req'[r] # req[r]
           /\ Len(req'[r].vec) >= NextCommand(r))
             => /\ req'[r].vec[NextCommand(r)] = ErrorToString(NoSuchSession(req[r].sid))
                /\ Len(req'[r].vec) = NextCommand(r)
                /\ req'[r].pc = "done"
                /\ ~req'[r].reply.ok
                /\ req'[r].reply.list = req'[r].vec
      ]_vars

\* C33: with several SessionUpdate requests in flight, a step of one update leaves
\* every other request as it was and takes and starts backend calls of its own
\* commands only; what it appends to its list is the result of the call answered
\* for its own command, followed by outputs of its own next commands in their
\* order, an error text only as the last; and its reply is its own list: complete
\* on success, cut after its own first failed command otherwise.
C33_RepliesAreIndependent ==
    [][\A r \in Requests :
          (IsUpdate(r) /\ req[r].pc \in {"spawned", "await"} /\ req'[r] # req[r])
             => LET old == req[r].vec
                    new == req'[r].vec
                IN /\ \A q \in Requests \ {r} : req'[q] = req[q]
                   /\ \A c \in (calls \ calls') \cup (calls' \ calls) : c.r = r
                   /\ \A c \in calls' \ calls : c.i = Len(new) + 1 /\ c.i <= Len(req[r].cmds)
                   /\ Len(new) <= Len(req[r].cmds)
                   /\ SubSeq(new, 1, Len(old)) = old
                   /\ req[r].pc = "await" =>
                         \E c \in calls \ calls' :
                            /\ c.r = r /\ c.i = Len(old) + 1 /\ c.state = "answered"
                            /\ new[c.i] = CommandResult(req[r].cmds[c.i], c.ans).text
                   /\ \A i \in (Len(old) + 1)..Len(new) :
                         \/ IsOutputOf(req[r].cmds[i], new[i])
                         \/ IsErrorText(new[i]) /\ i = Len(new) /\ req'[r].pc = "done"
                                                /\ ~req'[r].reply.ok
                   /\ req'[r].pc = "done" =>
                         /\ req'[r].reply.list = new
                         /\ req'[r].reply.ok <=>
                               /\ Len(new) = Len(req[r].cmds)
                               /\ \A i \in 1..Len(new) : ~IsErrorText(new[i])
      ]_vars

\* The earlier of two updates still waits for the backend, with outputs in its
\* list, when the later one, of other commands, has been answered through polls.
C33_Witness ==
    \E r1, r2 \in Requests :
        /\ r1 < r2 /\ IsUpdate(r1) /\ IsUpdate(r2)
        /\ req[r1].cmds # req[r2].cmds
        /\ req[r1].pc = "await" /\ req[r1].vec # <<>>
        /\ req[r2].pc = "done" /\ req[r2].vec # <<>>
        /\ ~req[r2].reply.ok
        /\ Len(req[r2].reply.list) >= 2

\* C34: the step in which a CreateSession learns that its image pull or its
\* container creation failed ends the request with an IoError carrying the text of
\* the backend's error and leaves the store as it was; a CreateSession changes the
\* store in no step but the one that ends it with success.
C34_FailedCreateLeavesStore ==
    [][\A r \in Requests :
          /\ \A c \in calls \ calls' :
                (c.r = r /\ req[r].type = "create" /\ c.state = "answered" /\ ~c.ans.ok)
                   => /\ c.op \in {"pull", "create"}
                      /\ req'[r].pc = "done"
                      /\ ~req'[r].reply.ok
                      /\ req'[r].reply.err = MkError("IoError", c.ans.status, c.ans.kind)
                      /\ deploys' = deploys
          /\ (req[r].type = "create" /\ req'[r] # req[r]
                /\ ~(req'[r].pc = "done" /\ req'[r].reply.ok))
                => deploys' = deploys
      ]_vars

\* A CreateSession failed while the session of an earlier one is in the store.
C34_Witness ==
    \E r \in Requests : \E s \in DOMAIN deploys :
        /\ req[r].type = "create" /\ req[r].pc = "done"
        /\ req[r].reply.err.kind = "IoError"
        /\ req[r].ws \in dirs

\* C35: whenever no CreateSession is in flight, every workspace directory that
\* exists (created and not cleared) is the workspace of a session in the store.
C35_NoOrphanedWorkspace ==
    (\A r \in Requests : req[r].type = "create" => req[r].pc = "done")
        => \A w \in dirs : \E s \in DOMAIN deploys : deploys[s].workspace.name = w

\* C36: when a DownloadFile has yielded "OK", the archive writer has taken every
\* chunk of the source stream exactly once and in source order, the source has
\* ended and the channel is closed and empty, and the archive write has completed.
C36_DownloadDeliversInOrder ==
    download.result = "ok"
        => /\ download.text = Lit("OK")
           /\ download.taken = [i \in 1..download.length |-> i]
           /\ download.read = download.length
           /\ download.source = "ended"
           /\ download.send = "closed"
           /\ download.held = 0
           /\ download.channel = <<>>
           /\ download.put = "done"

\* A Raw download of a source long enough to fill the channel and park the sender.
C36_Witness ==
    /\ download.result = "ok"
    /\ download.format = "Raw"
    /\ download.length >= ChannelBuffer + 2
    /\ Len(download.taken) = download.length

\* C37: under fair scheduling, with every backend call answered, every
\* SessionUpdate, CreateSession and DestroySession that was sent is replied to.
C37_EveryRequestReplied ==
    \A r \in Requests :
        (req[r].type \in {"update", "create", "destroy"} /\ req[r].pc = "queued")
            ~> (req[r].pc = "done")
====
